---- MODULE Spec2Model ----
(***************************************************************************)
(* Model of the two programs of the repository.                            *)
(*                                                                         *)
(*   task2.py  optimize_printing: sort the jobs by (priority, input        *)
(*             index), pack them greedily into batches under a volume and  *)
(*             an item ceiling, then flatten the batches into print_order  *)
(*             and add up the batch times into total_time.                 *)
(*   task1.py  find_min_max: divide-and-conquer minimum and maximum.       *)
(*                                                                         *)
(* Spec        runs optimize_printing on every input of Inputs.            *)
(* SpecMinMax  runs find_min_max and its recursive helper on every array   *)
(*             of Arrays.                                                  *)
(***************************************************************************)
EXTENDS Integers, Sequences, FiniteSets

VARIABLES
    print_jobs,        \* argument: the list of job records, in input order
    constraints,       \* argument: [max_volume, max_items]
    pc,                \* position inside optimize_printing
    jobs,              \* the jobs after the sort (task2.py:70)
    i,                 \* number of jobs the packing loop has consumed
    batches,           \* closed batches, each [jobs, time]
    current_batch,     \* the open batch
    current_volume,    \* summed volume of the open batch
    current_max_time,  \* largest print_time of the open batch
    k,                 \* number of batches the summary loop has consumed
    print_order,       \* ids flattened so far
    total_time,        \* batch times added so far
    result,            \* <<>> until the call returns, then <<returned dict>>
    arr,               \* argument of find_min_max
    mm_pc,             \* position of the find_min_max call
    mm_left,           \* left index handed to the recursive helper (0-based)
    mm_right,          \* right index handed to the recursive helper (0-based)
    mm_result          \* <<>> until the call returns, then <<min, max>>

vars == <<print_jobs, constraints, pc, jobs, i, batches, current_batch,
          current_volume, current_max_time, k, print_order, total_time,
          result, arr, mm_pc, mm_left, mm_right, mm_result>>

task2_vars == <<print_jobs, constraints, pc, jobs, i, batches, current_batch,
                current_volume, current_max_time, k, print_order, total_time,
                result>>

task1_vars == <<arr, mm_pc, mm_left, mm_right, mm_result>>

----------------------------------------------------------------------------
(* Bounds of the explored inputs.                                          *)

MaxJobs == 3

MaxItems == 2

MaxLen == 4

MaxVal == 2

Volumes == {1, 2}

Priorities == {1, 2}

PrintTimes == {1, 2}

MaxVolumes == {1, 2, 3}

MalformedLens == {0, 1, 2}

MalformedField == {0, 1}

----------------------------------------------------------------------------
(* Generic helpers.                                                        *)

Max(a, b) == IF a >= b THEN a ELSE b

Min(a, b) == IF a <= b THEN a ELSE b

SeqsUpTo(S, n) == UNION { [1..m -> S] : m \in 0..n }

----------------------------------------------------------------------------
(* task2.py: the inputs.                                                   *)

PrintJob(id, volume, priority, print_time) ==
    [id |-> id, volume |-> volume, priority |-> priority,
     print_time |-> print_time]

PrinterConstraints(max_volume, max_items) ==
    [max_volume |-> max_volume, max_items |-> max_items]

\* Two ways of naming n jobs with unique ids: in input order and against it.
IdSchemes(n) == { [p \in 1..n |-> p], [p \in 1..n |-> n + 1 - p] }

JobFields == [volume : Volumes, priority : Priorities, print_time : PrintTimes]

\* Well-formed requests: unique ids, positive fields, positive ceilings.
ValidJobLists ==
    UNION { { [p \in 1..n |-> PrintJob(ids[p], f[p].volume, f[p].priority,
                                        f[p].print_time)] :
                ids \in IdSchemes(n), f \in [1..n -> JobFields] } :
            n \in 0..MaxJobs }

ValidInputs ==
    { <<js, PrinterConstraints(mv, mi)>> :
        js \in ValidJobLists, mv \in MaxVolumes, mi \in 1..MaxItems }

\* Short requests whose ids may repeat and whose fields and ceilings may be 0.
RawJobs ==
    [id : {1, 2}, volume : MalformedField, priority : MalformedField,
     print_time : MalformedField]

RawInputs ==
    { <<js, PrinterConstraints(mv, mi)>> :
        js \in UNION { [1..n -> RawJobs] : n \in MalformedLens },
        mv \in MalformedField, mi \in MalformedField }

Inputs == ValidInputs \cup RawInputs

UniqueIds(js) ==
    \A p, q \in 1..Len(js) : js[p].id = js[q].id => p = q

ValidJob(j) == j.volume > 0 /\ j.priority > 0 /\ j.print_time > 0

ValidRequest(js, c) ==
    /\ UniqueIds(js)
    /\ \A p \in 1..Len(js) : ValidJob(js[p])
    /\ c.max_volume > 0
    /\ c.max_items >= 1

ValidInput == ValidRequest(print_jobs, constraints)

----------------------------------------------------------------------------
(* task2.py:66-70: the sort.                                               *)

\* jobs_with_index: the pairs <<0-based input index, job>>.
JobsWithIndex(js) == [p \in 1..Len(js) |-> <<p - 1, js[p]>>]

\* The key of the sort: lambda x: (x[1].priority, x[0]).
SortKeyByIndexOnly(x) == <<0, x[1]>>

SortKey(x) == <<x[2].priority, x[1]>>

\* Python's order on pairs of numbers.
TupleLess(a, b) == a[1] < b[1] \/ (a[1] = b[1] /\ a[2] < b[2])

\* x goes behind every element whose key is not greater than its own.
InsertByKey(x, s) ==
    LET n == Cardinality({ p \in 1..Len(s) : ~TupleLess(SortKey(x), SortKey(s[p])) })
    IN  SubSeq(s, 1, n) \o <<x>> \o SubSeq(s, n + 1, Len(s))

RECURSIVE SortByKey(_)
\* list.sort(key=...): a stable ascending sort, here by insertion.
SortByKey(s) ==
    IF s = <<>> THEN <<>>
    ELSE InsertByKey(s[Len(s)], SortByKey(SubSeq(s, 1, Len(s) - 1)))

\* jobs = [job for _, job in jobs_with_index]
SortedJobs(js) ==
    LET sorted == SortByKey(JobsWithIndex(js))
    IN  [p \in 1..Len(sorted) |-> sorted[p][2]]

----------------------------------------------------------------------------
(* task2.py:77-98: the packing loop.                                       *)

CanFitVolumeBeforeAdding(volume, job, printer) == volume <= printer.max_volume

CanFitVolumeStrict(volume, job, printer) ==
    volume + job.volume < printer.max_volume

\* can_fit_volume = current_volume + job.volume <= printer.max_volume
CanFitVolume(volume, job, printer) ==
    volume + job.volume <= printer.max_volume

CanFitItemsInclusive(batch, printer) == Len(batch) <= printer.max_items

\* can_fit_items = len(current_batch) < printer.max_items
CanFitItems(batch, printer) == Len(batch) < printer.max_items

\* if current_batch and (not can_fit_volume or not can_fit_items)
MustClose(batch, volume, job, printer) ==
    /\ batch # <<>>
    /\ (~CanFitVolume(volume, job, printer) \/ ~CanFitItems(batch, printer))

\* {'jobs': current_batch, 'time': current_max_time}
ClosedBatch(batch, time) == [jobs |-> batch, time |-> time]

LatestTime(time, job) == job.print_time

\* current_max_time = max(current_max_time, job.print_time)
NewMaxTime(time, job) == Max(time, job.print_time)

----------------------------------------------------------------------------
(* task2.py:100-111: the summary.                                          *)

\* print_order = [] ; total_time = 0
SummaryStartOffByOne == [print_order |-> <<>>, total_time |-> 1]

SummaryStart == [print_order |-> <<>>, total_time |-> 0]

\* for job in batch['jobs']: print_order.append(job.id)
BatchIds(batch) == [p \in 1..Len(batch.jobs) |-> batch.jobs[p].id]

----------------------------------------------------------------------------
(* optimize_printing as a state machine.                                   *)

Task1Idle ==
    /\ arr = <<>>
    /\ mm_pc = "idle"
    /\ mm_left = 0
    /\ mm_right = 0
    /\ mm_result = <<>>

Init ==
    /\ \E inp \in Inputs :
        /\ print_jobs = inp[1]
        /\ constraints = inp[2]
    /\ pc = "sort"
    /\ jobs = <<>>
    /\ i = 0
    /\ batches = <<>>
    /\ current_batch = <<>>
    /\ current_volume = 0
    /\ current_max_time = 0
    /\ k = 0
    /\ print_order = <<>>
    /\ total_time = 0
    /\ result = <<>>
    /\ Task1Idle

\* task2.py:66-75: build the records, sort, empty accumulators.
SortJobs ==
    /\ pc = "sort"
    /\ jobs' = SortedJobs(print_jobs)
    /\ batches' = <<>>
    /\ current_batch' = <<>>
    /\ current_volume' = 0
    /\ current_max_time' = 0
    /\ i' = 0
    /\ pc' = "pack"
    /\ UNCHANGED <<print_jobs, constraints, k, print_order, total_time, result>>
    /\ UNCHANGED task1_vars

\* task2.py:77-92: one iteration of `for job in jobs`.
PackJob ==
    /\ pc = "pack"
    /\ i < Len(jobs)
    /\ LET job == jobs[i + 1]
           close == MustClose(current_batch, current_volume, job, constraints)
           batch == IF close THEN <<>> ELSE current_batch
           volume == IF close THEN 0 ELSE current_volume
           time == IF close THEN 0 ELSE current_max_time
       IN  /\ batches' = IF close
                         THEN Append(batches, ClosedBatch(current_batch, current_max_time))
                         ELSE batches
           /\ current_batch' = Append(batch, job)
           /\ current_volume' = volume + job.volume
           /\ current_max_time' = NewMaxTime(time, job)
    /\ i' = i + 1
    /\ UNCHANGED <<print_jobs, constraints, pc, jobs, k, print_order, total_time, result>>
    /\ UNCHANGED task1_vars

CloseLastBatchNoFlush ==
    /\ pc = "pack"
    /\ i = Len(jobs)
    /\ batches' = batches
    /\ print_order' = SummaryStart.print_order
    /\ total_time' = SummaryStart.total_time
    /\ k' = 0
    /\ pc' = "summarize"
    /\ UNCHANGED <<print_jobs, constraints, jobs, i, current_batch,
                   current_volume, current_max_time, result>>
    /\ UNCHANGED task1_vars

\* task2.py:94-101: the loop is over; flush the open batch, start the summary.
CloseLastBatch ==
    /\ pc = "pack"
    /\ i = Len(jobs)
    /\ batches' = IF current_batch # <<>>
                  THEN Append(batches, ClosedBatch(current_batch, current_max_time))
                  ELSE batches
    /\ print_order' = SummaryStart.print_order
    /\ total_time' = SummaryStart.total_time
    /\ k' = 0
    /\ pc' = "summarize"
    /\ UNCHANGED <<print_jobs, constraints, jobs, i, current_batch,
                   current_volume, current_max_time, result>>
    /\ UNCHANGED task1_vars

\* task2.py:103-106: one iteration of `for batch in batches`.
SummarizeBatch ==
    /\ pc = "summarize"
    /\ k < Len(batches)
    /\ print_order' = print_order \o BatchIds(batches[k + 1])
    /\ total_time' = total_time + batches[k + 1].time
    /\ k' = k + 1
    /\ UNCHANGED <<print_jobs, constraints, pc, jobs, i, batches, current_batch,
                   current_volume, current_max_time, result>>
    /\ UNCHANGED task1_vars

\* task2.py:108-111: return the dict.
ReturnResult ==
    /\ pc = "summarize"
    /\ k = Len(batches)
    /\ result' = <<[print_order |-> print_order, total_time |-> total_time]>>
    /\ pc' = "done"
    /\ UNCHANGED <<print_jobs, constraints, jobs, i, batches, current_batch,
                   current_volume, current_max_time, k, print_order, total_time>>
    /\ UNCHANGED task1_vars

Next ==
    \/ SortJobs
    \/ PackJob
    \/ CloseLastBatch
    \/ SummarizeBatch
    \/ ReturnResult

Spec == Init /\ [][Next]_vars

----------------------------------------------------------------------------
(* task1.py: find_min_max.                                                 *)

Values == (-1)..MaxVal

Arrays == SeqsUpTo(Values, MaxLen)

PairInInputOrder(x, y) == <<x, y>>

\* task1.py:56-60: the two-element base case.
PairMinMax(x, y) == IF x < y THEN <<x, y>> ELSE <<y, x>>

RECURSIVE _find_min_max_recursive(_, _, _)
\* task1.py:41-70; left and right are Python's 0-based indices.
_find_min_max_recursive(a, left, right) ==
    IF left = right THEN <<a[left + 1], a[left + 1]>>
    ELSE IF right = left + 1 THEN PairMinMax(a[left + 1], a[right + 1])
    ELSE LET mid == (left + right) \div 2
             l == _find_min_max_recursive(a, left, mid)
             r == _find_min_max_recursive(a, mid + 1, right)
         IN  <<Min(l[1], r[1]), Max(l[2], r[2])>>

Task2Idle ==
    /\ print_jobs = <<>>
    /\ constraints = PrinterConstraints(1, 1)
    /\ pc = "idle"
    /\ jobs = <<>>
    /\ i = 0
    /\ batches = <<>>
    /\ current_batch = <<>>
    /\ current_volume = 0
    /\ current_max_time = 0
    /\ k = 0
    /\ print_order = <<>>
    /\ total_time = 0
    /\ result = <<>>

InitMinMax ==
    /\ arr \in Arrays
    /\ mm_pc = "call"
    /\ mm_left = 0
    /\ mm_right = 0
    /\ mm_result = <<>>
    /\ Task2Idle

\* task1.py:14-38: find_min_max(arr).
find_min_max ==
    /\ mm_pc = "call"
    /\ IF arr = <<>>
       THEN /\ mm_pc' = "ValueError"
            /\ UNCHANGED <<mm_left, mm_right, mm_result>>
       ELSE /\ mm_left' = 0
            /\ mm_right' = Len(arr) - 1
            /\ mm_result' = _find_min_max_recursive(arr, 0, Len(arr) - 1)
            /\ mm_pc' = "returned"
    /\ UNCHANGED arr
    /\ UNCHANGED task2_vars

\* task1.py:41-70: the helper called on a range left..right of arr.
CallRecursiveHelper ==
    /\ mm_pc = "call"
    /\ \E left \in 0..(Len(arr) - 1) :
        \E right \in left..(Len(arr) - 1) :
            /\ mm_left' = left
            /\ mm_right' = right
            /\ mm_result' = _find_min_max_recursive(arr, left, right)
    /\ mm_pc' = "helper_returned"
    /\ UNCHANGED arr
    /\ UNCHANGED task2_vars

NextMinMax ==
    \/ find_min_max
    \/ CallRecursiveHelper

SpecMinMax == InitMinMax /\ [][NextMinMax]_vars

----------------------------------------------------------------------------
(* Vocabulary of the properties of optimize_printing.                      *)

Returned == pc = "done"

ReturnedOrder == result[1].print_order

ReturnedTime == result[1].total_time

Count(s, x) == Cardinality({ p \in 1..Len(s) : s[p] = x })

InputIdSeq == [p \in 1..Len(print_jobs) |-> print_jobs[p].id]

IdsOf(s) == { s[p] : p \in 1..Len(s) }

\* Input position of the job named id, and its place in the returned order.
InputIndex(id) == CHOOSE p \in 1..Len(print_jobs) : print_jobs[p].id = id

Place(id) == CHOOSE p \in 1..Len(ReturnedOrder) : ReturnedOrder[p] = id

\* The input job at p sorts before the one at q under (priority, index).
KeyBefore(p, q) ==
    \/ print_jobs[p].priority < print_jobs[q].priority
    \/ /\ print_jobs[p].priority = print_jobs[q].priority
       /\ p < q

RECURSIVE SumVolume(_)
SumVolume(s) ==
    IF s = <<>> THEN 0 ELSE s[1].volume + SumVolume(Tail(s))

\* The largest print_time among the jobs of a non-empty batch.
SlowestTime(s) ==
    CHOOSE t \in { s[p].print_time : p \in 1..Len(s) } :
        \A p \in 1..Len(s) : s[p].print_time <= t

RECURSIVE SumSlowest(_)
SumSlowest(bs) ==
    IF bs = <<>> THEN 0 ELSE SlowestTime(bs[1].jobs) + SumSlowest(Tail(bs))

Oversized(j) == j.volume > constraints.max_volume

Holds(batch, id) == \E p \in 1..Len(batch.jobs) : batch.jobs[p].id = id

----------------------------------------------------------------------------
(* Properties of optimize_printing, checked under Spec.                    *)

\* C1: on a valid request the ids of the returned print_order are, as a
\* multiset, the ids of the input jobs: every id occurs in the result exactly
\* as often as in the input.
C1_Partition ==
    (Returned /\ ValidInput) =>
        \A id \in IdsOf(InputIdSeq) \cup IdsOf(ReturnedOrder) :
            Count(ReturnedOrder, id) = Count(InputIdSeq, id)

\* Three jobs, the middle one of the sorted order too large for any batch,
\* so that batches were closed inside the loop and after it.
C1_Witness ==
    /\ Returned /\ ValidInput
    /\ Len(print_jobs) = 3
    /\ Len(batches) >= 2
    /\ Len(current_batch) >= 1
    /\ \E p \in 1..3 : Oversized(print_jobs[p])

\* C2: on a valid request the returned print_order lists the input ids in
\* strictly ascending order of the key (priority, input index), and lists
\* all of them.
C2_SortedByPriorityThenIndex ==
    (Returned /\ ValidInput) =>
        /\ Len(ReturnedOrder) = Len(print_jobs)
        /\ IdsOf(ReturnedOrder) \subseteq IdsOf(InputIdSeq)
        /\ \A a, b \in 1..Len(ReturnedOrder) :
            a < b => KeyBefore(InputIndex(ReturnedOrder[a]),
                               InputIndex(ReturnedOrder[b]))

\* The sort had to move a job forward, had a tie to keep in input order,
\* and the result was cut into several batches.
C2_Witness ==
    /\ Returned /\ ValidInput
    /\ Len(batches) >= 2
    /\ \E p, q \in 1..Len(print_jobs) :
        p < q /\ print_jobs[p].priority > print_jobs[q].priority
    /\ \E p, q \in 1..Len(print_jobs) :
        p < q /\ print_jobs[p].priority = print_jobs[q].priority
    /\ print_jobs[1].id # 1

\* C3: on a valid request every closed batch of two or more jobs keeps both
\* ceilings: its summed volume is at most max_volume and its job count at
\* most max_items.
C3_Capacity ==
    ValidInput =>
        \A b \in 1..Len(batches) :
            Len(batches[b].jobs) >= 2 =>
                /\ SumVolume(batches[b].jobs) <= constraints.max_volume
                /\ Len(batches[b].jobs) <= constraints.max_items

\* A full batch of two jobs that exactly reaches the volume ceiling, followed
\* by another batch.
C3_Witness ==
    /\ Returned /\ ValidInput
    /\ Len(batches) >= 2
    /\ Len(batches[1].jobs) = 2
    /\ Len(batches[1].jobs) = constraints.max_items
    /\ SumVolume(batches[1].jobs) = constraints.max_volume

\* C4: on a valid request the returned total_time is the sum over the built
\* batches of the largest print_time in the batch, and the time recorded
\* with each batch is that largest print_time.
C4_TotalTime ==
    (Returned /\ ValidInput) =>
        /\ ReturnedTime = SumSlowest(batches)
        /\ \A b \in 1..Len(batches) :
            batches[b].time = SlowestTime(batches[b].jobs)

\* Two batches, the first holding a slow job followed by a faster one.
C4_Witness ==
    /\ Returned /\ ValidInput
    /\ Len(batches) >= 2
    /\ Len(batches[1].jobs) = 2
    /\ batches[1].jobs[1].print_time > batches[1].jobs[2].print_time
    /\ ReturnedTime = batches[1].jobs[1].print_time + batches[2].time

\* C5: on a valid request a job whose volume alone exceeds max_volume is in
\* the returned print_order, and the batch holding it holds nothing else.
C5_OversizedAlone ==
    (Returned /\ ValidInput) =>
        \A p \in 1..Len(print_jobs) :
            Oversized(print_jobs[p]) =>
                /\ print_jobs[p].id \in IdsOf(ReturnedOrder)
                /\ \E b \in 1..Len(batches) : Holds(batches[b], print_jobs[p].id)
                /\ \A b \in 1..Len(batches) :
                    Holds(batches[b], print_jobs[p].id) =>
                        Len(batches[b].jobs) = 1

\* An oversized job packed between two jobs that do fit.
C5_Witness ==
    /\ Returned /\ ValidInput
    /\ Len(jobs) = 3
    /\ Oversized(jobs[2])
    /\ ~Oversized(jobs[1])
    /\ ~Oversized(jobs[3])
    /\ constraints.max_items >= 2
    /\ Len(batches) = 3

\* C6: a malformed request (repeated id, non-positive field, max_items < 1
\* or max_volume <= 0) builds no batch and returns no schedule.
C6_MalformedRejected ==
    ~ValidInput =>
        /\ result = <<>>
        /\ batches = <<>>
        /\ current_batch = <<>>

\* C7: among jobs of equal priority the one with the strictly smaller
\* volume comes earlier in the returned print_order (the docstring's step 2,
\* task2.py:41-42).
C7_EqualPriorityByVolume ==
    (Returned /\ ValidInput) =>
        \A p, q \in 1..Len(print_jobs) :
            ( /\ print_jobs[p].priority = print_jobs[q].priority
              /\ print_jobs[p].volume < print_jobs[q].volume )
            => Place(print_jobs[p].id) < Place(print_jobs[q].id)

\* C8: for an empty job list, whatever the constraints, the call returns
\* print_order = [] and total_time = 0.
C8_EmptyJobList ==
    (Returned /\ print_jobs = <<>>) =>
        result = <<[print_order |-> <<>>, total_time |-> 0]>>

\* The empty list returned under constraints that are themselves malformed.
C8_Witness ==
    /\ Returned
    /\ print_jobs = <<>>
    /\ constraints.max_items = 0
    /\ constraints.max_volume = 0
    /\ Len(result) = 1

\* C10: a boundary between two consecutive batches is forced: the first job
\* of the later batch would have broken the volume ceiling of the earlier
\* one, or the earlier one was already at the item ceiling.
C10_BoundaryForced ==
    \A b \in 1..(Len(batches) - 1) :
        \/ SumVolume(batches[b].jobs) + batches[b + 1].jobs[1].volume
               > constraints.max_volume
        \/ Len(batches[b].jobs) >= constraints.max_items

\* A boundary forced by the item ceiling alone: the volume would have fit.
C10_Witness ==
    /\ Returned /\ ValidInput
    /\ Len(batches) = 2
    /\ Len(batches[1].jobs) = 2
    /\ Len(batches[1].jobs) >= constraints.max_items
    /\ SumVolume(batches[1].jobs) + batches[2].jobs[1].volume
           <= constraints.max_volume

----------------------------------------------------------------------------
(* Properties of find_min_max, checked under SpecMinMax.                   *)

RangeValues == { arr[p] : p \in (mm_left + 1)..(mm_right + 1) }

Smallest(S) == CHOOSE m \in S : \A x \in S : m <= x

Largest(S) == CHOOSE m \in S : \A x \in S : x <= m

\* C9: find_min_max on a non-empty arr returns (smallest, largest) of arr,
\* and the helper on left..right returns (smallest, largest) of exactly
\* arr[left..right].
C9_MinMax ==
    /\ mm_pc = "returned" =>
        /\ mm_left = 0
        /\ mm_right = Len(arr) - 1
        /\ mm_result = <<Smallest(RangeValues), Largest(RangeValues)>>
    /\ mm_pc = "helper_returned" =>
        mm_result = <<Smallest(RangeValues), Largest(RangeValues)>>

\* A full-length array with a repeated value whose largest element comes
\* before its smallest.
C9_Witness ==
    /\ mm_pc = "returned"
    /\ Len(arr) = MaxLen
    /\ arr[1] = mm_result[2]
    /\ arr[2] = mm_result[1]
    /\ mm_result[1] < mm_result[2]
    /\ arr[3] = arr[4]

====
